---- MODULE Spec2Model ----
(***************************************************************************)
(* Batch video processing pipeline of YoutubeShortsAutomation:            *)
(* process_videos (the orchestrator loop), process_single_video (the      *)
(* per-item pipeline), download_video (the retry loop) and upload_video   *)
(* (the publisher), with the output directory and the remote channel as   *)
(* state.                                                                  *)
(*                                                                         *)
(* Conventions.  A string of the program is a sequence of one-character   *)
(* strings.  A source URL is a positive integer (0: the item has no URL); *)
(* the video id yt-dlp reports for URL u is u itself.  A file of the      *)
(* output directory is a pair <<kind, n>>: <<"id", u>> is "<id>.mp4" of   *)
(* URL u, <<"video", i>> is "video_<i>.mp4", <<"resized_append", i>> and  *)
(* <<"final", i>> are "resized_append_video_<i>.mp4" and                  *)
(* "final_video_<i>.mp4".  An instant is a number of hours (UTC).         *)
(***************************************************************************)
EXTENDS Integers, Sequences, FiniteSets, TLC

\* ------------------------------------------------------------------------
\* Bounds of the model
\* ------------------------------------------------------------------------

\* longest batch handed to process_videos
MaxVideos == 2

\* most calls of process_videos on one output directory (SpecRerun)
MaxRuns == 2

\* most direct calls of upload_video (SpecUpload)
MaxUploadCalls == 2

\* longest text handed to extract_pattern_match (SpecPure)
MaxTextLen == 5

\* longest title and description the pattern loop is run on (SpecPure)
MaxInfoLen == 3

\* highest index a schedule is computed for (SpecPure)
MaxIndex == 3

\* largest width and height of the small frames resized (SpecPure)
MaxDim == 4

\* ------------------------------------------------------------------------
\* Program constants
\* ------------------------------------------------------------------------

\* download_video(url, output_path, max_retries=3)
max_retries == 3

\* wait_time = (attempt + 1) * 2
base_delay == 2

\* pytz.timezone('US/Eastern'), standard time: local + 5 h = UTC
est_offset == 5

\* A datetime: a wall clock reading (hours) and the zone it is read in
\* ("naive" when it has no tzinfo).  NoTime is scheduled_time = None.
NoTime == [wall |-> 0, tz |-> "none"]

DateTime(wall, tz) == [wall |-> wall, tz |-> tz]

\* the values a caller may pass as privacy_status
PrivacyChoices == {"private", "public", "unlisted", "scheduled"}

\* schedule_config: start (naive local hour of start_date + start_time) and
\* hours_between (st.number_input, min_value=1)
ScheduleChoices == {[start |-> 0, hours_between |-> 6]}

NoSchedule == [start |-> 0, hours_between |-> 0]

\* render_append_section: (enabled, path configured, file exists)
AppendChoices ==
    { [enabled |-> FALSE, path |-> FALSE, exists |-> FALSE],
      [enabled |-> TRUE,  path |-> FALSE, exists |-> FALSE],
      [enabled |-> TRUE,  path |-> TRUE,  exists |-> TRUE] }

\* ------------------------------------------------------------------------
\* Strings
\* ------------------------------------------------------------------------

Digits == {"0", "1", "2", "3", "4", "5", "6", "7", "8", "9"}

\* str.lower on the letters the model uses (re.IGNORECASE)
Lower(c) == CASE c = "F" -> "f" [] c = "E" -> "e" [] OTHER -> c

\* the wildcard token '{#}'
Wildcard == <<"{", "#", "}">>

\* one atom of the compiled regular expression
DigitRun == [kind |-> "digits", ch |-> ""]
AnyChar == [kind |-> "any", ch |-> ""]
Literal(c) == [kind |-> "lit", ch |-> c]

IsWildcardAt(pattern, k) ==
    /\ k + 2 <= Len(pattern)
    /\ SubSeq(pattern, k, k + 2) = Wildcard

\* pattern.replace('{#}', r'(\d+)') followed by re's compilation: the
\* wildcard is a run of digits, '.' is any character, every other modelled
\* character stands for itself
RECURSIVE Compile(_, _)
Compile(pattern, k) ==
    IF k > Len(pattern) THEN <<>>
    ELSE IF IsWildcardAt(pattern, k)
         THEN <<DigitRun>> \o Compile(pattern, k + 3)
         ELSE IF pattern[k] = "."
              THEN <<AnyChar>> \o Compile(pattern, k + 1)
              ELSE <<Literal(pattern[k])>> \o Compile(pattern, k + 1)

\* re.compile raises re.error: an unbalanced '(' or '[' is left in the
\* pattern after the substitution
RECURSIVE Malformed(_, _)
Malformed(pattern, k) ==
    IF k > Len(pattern) THEN FALSE
    ELSE IF IsWildcardAt(pattern, k) THEN Malformed(pattern, k + 3)
         ELSE pattern[k] \in {"(", "["} \/ Malformed(pattern, k + 1)

AtomMatches(atom, c) ==
    CASE atom.kind = "digits" -> c \in Digits
      [] atom.kind = "any" -> TRUE
      [] OTHER -> Lower(atom.ch) = Lower(c)

\* length of the run of digits of text that starts at position p
RECURSIVE DigitRunLen(_, _)
DigitRunLen(text, p) ==
    IF p > Len(text) \/ text[p] \notin Digits THEN 0
    ELSE 1 + DigitRunLen(text, p + 1)

\* The end (exclusive) of the match of atoms[k..] that starts at p, 0 when
\* there is none: the regular expression engine's search, greedy on \d+ and
\* backtracking to shorter runs.
RECURSIVE MatchEnd(_, _, _, _)
RECURSIVE MatchRun(_, _, _, _, _)
MatchEnd(atoms, k, text, p) ==
    IF k > Len(atoms) THEN p
    ELSE IF atoms[k].kind = "digits"
         THEN MatchRun(atoms, k, text, p, DigitRunLen(text, p))
         ELSE IF p <= Len(text) /\ AtomMatches(atoms[k], text[p])
              THEN MatchEnd(atoms, k + 1, text, p + 1)
              ELSE 0
MatchRun(atoms, k, text, p, n) ==
    IF n < 1 THEN 0
    ELSE LET e == MatchEnd(atoms, k + 1, text, p + n)
         IN IF e # 0 THEN e ELSE MatchRun(atoms, k, text, p, n - 1)

\* re.finditer: the non-overlapping matches, scanning left to right
RECURSIVE FindIter(_, _, _)
FindIter(atoms, text, p) ==
    IF p > Len(text) THEN <<>>
    ELSE LET e == MatchEnd(atoms, 1, text, p)
         IN IF e = 0 THEN FindIter(atoms, text, p + 1)
            ELSE IF e = p THEN <<<<>>>> \o FindIter(atoms, text, p + 1)
            ELSE <<SubSeq(text, p, e - 1)>> \o FindIter(atoms, text, e)

\* re.finditer(pattern_regex, text, re.IGNORECASE) and the list built from
\* it: the matches, or re.error raised when the expression is compiled
finditer(pattern, text) ==
    IF Malformed(pattern, 1)
    THEN [raised |-> TRUE, matches |-> <<>>]
    ELSE [raised |-> FALSE,
          matches |-> FindIter(Compile(pattern, 1), text, 1)]

\* (mutant) the handler lets the exception through
HandleException_Propagates(r) == r

\* except Exception as e: st.error(...); return []
HandleException(r) == [raised |-> FALSE, matches |-> <<>>]

\* the call as a whole: whether it raises, and the list it returns
ExtractOutcome(text, pattern) ==
    IF text = <<>> \/ pattern = <<>>
    THEN [raised |-> FALSE, matches |-> <<>>]
    ELSE LET r == finditer(pattern, text)
         IN IF r.raised THEN HandleException(r) ELSE r

extract_pattern_match(text, pattern) == ExtractOutcome(text, pattern).matches

\* ------------------------------------------------------------------------
\* Values of a report row
\* ------------------------------------------------------------------------

\* A cell of a row: a number, a text, a URL.  One record shape for all, so
\* that a column may hold any of them (a dict value is untyped).
Num(n) == [t |-> "num", n |-> n, s |-> <<>>]
Text(s) == [t |-> "text", n |-> 0, s |-> s]
SourceUrl(u) == [t |-> "url", n |-> u, s |-> <<>>]

\* f"https://youtube.com/watch?v={success}"
WatchUrl(id) == [t |-> "watch", n |-> id, s |-> <<>>]

\* scheduled_time.strftime('%Y-%m-%d %I:%M %p EST'): the local wall clock
ScheduledDate(local) == [t |-> "est", n |-> local, s |-> <<>>]

Immediate == Text(<<"Immediate">>)
Processing == Text(<<"Processing">>)

\* d[k] = v on a dict
DictSet(d, k, v) ==
    [x \in DOMAIN d \cup {k} |-> IF x = k THEN v ELSE d[x]]

\* ------------------------------------------------------------------------
\* Inputs
\* ------------------------------------------------------------------------

\* what ydl.extract_info reports for a source: title and description
MetaChoices ==
    { [title |-> <<"F", "1", "2">>, description |-> <<"f", "9">>] }

\* get_video_info's except branch
EmptyInfo == [title |-> <<>>, description |-> <<>>]

\* search_patterns as render_pattern_search_section returns them: both
\* fields non-empty, the column name any text
PatternChoices ==
    { <<>>,
      <<[pattern |-> <<"F", "{", "#", "}">>, column_name |-> "Episode"]>>,
      <<[pattern |-> <<"F", "{", "#", "}">>,
         column_name |-> "Uploaded Video URL"]>> }

\* a pattern whose column is named as the first column of the row
NumberPattern ==
    <<[pattern |-> <<"F", "{", "#", "}">>, column_name |-> "Starting Number"]>>

\* st.session_state.title_template, description_template (the defaults)
title_template == <<"Short #", "{number}", " - Repost">>
description_template == <<"Original video: ", "{originalUrl}", "#shorts">>

\* template_number: st.number_input(min_value=1)
StartNumbers == {3}

\* get_processing_config: schedule_enabled iff privacy_status = "scheduled"
ConfigChoices ==
    { [template_number |-> n, privacy_status |-> p,
       schedule_enabled |-> (p = "scheduled"),
       schedule_config |-> sc, append |-> a, search_patterns |-> sp] :
        n \in StartNumbers, p \in PrivacyChoices,
        sc \in ScheduleChoices \cup {NoSchedule},
        a \in AppendChoices, sp \in PatternChoices }
    \cup
    { [template_number |-> n, privacy_status |-> "private",
       schedule_enabled |-> FALSE, schedule_config |-> NoSchedule,
       append |-> [enabled |-> FALSE, path |-> FALSE, exists |-> FALSE],
       search_patterns |-> NumberPattern] : n \in StartNumbers }

ValidConfig(c) ==
    (c.schedule_config = NoSchedule) <=> ~c.schedule_enabled

\* the batches the item resolver may hand over: the item at position k has
\* the URL k, or none (0)
Batches ==
    UNION { {b \in [1 .. n -> 0 .. n] : \A k \in 1 .. n : b[k] \in {0, k}} :
              n \in 1 .. MaxVideos }

\* ------------------------------------------------------------------------
\* Files
\* ------------------------------------------------------------------------

NoFile == <<"none", 0>>

IdFile(u) == <<"id", u>>
VideoFile(n) == <<"video", n>>
ResizedFile(n) == <<"resized_append", n>>
FinalFile(n) == <<"final", n>>

\* os.path.exists
Exists(d, f) == \E k \in DOMAIN d : d[k] = f

Without(d, f) == SelectSeq(d, LAMBDA x : x # f)

\* a file is written: it is now the most recently changed one
WriteFile(d, f) == Append(Without(d, f), f)

\* max(mp4 files, key=os.path.getctime)
LatestFile(d) == d[Len(d)]

\* the directory holding video_<k>.mp4 for the k of ks, oldest first
RECURSIVE GuardFiles(_, _)
GuardFiles(ks, n) ==
    IF n = 0 THEN <<>>
    ELSE GuardFiles(ks, n - 1) \o (IF n \in ks THEN <<VideoFile(n)>> ELSE <<>>)

\* ------------------------------------------------------------------------
\* State
\* ------------------------------------------------------------------------

VARIABLES
    videos,             \* the batch: the items' source URLs
    config,             \* the configuration the batch was started with
    template_number,    \* config['template_number'], the mutable counter
    disk,               \* the output directory, oldest file first
    start_disk,         \* the output directory as the current call found it
    yt,                 \* the channel: the objects published, by id
    run,                \* which call of process_videos this is
    pc,                 \* where the orchestrator stands
    i,                  \* enumerate(videos, 1): the position of the item
    processed_videos,   \* the report of the current call
    processed_count,
    original_video_info,
    current_number,
    title,
    description,
    scheduled_time,
    processed_video,    \* the row under construction
    video_path,
    success,            \* process_single_video's result: an id, 0 for False
    attempt,            \* download_video's loop variable
    waits,              \* the time.sleep calls of the item's download
    download,           \* the item's call of download_video
    upload,             \* the item's call of upload_video
    pipe_log,           \* the calls of process_single_video: <<run, item>>
    dl_log,             \* the calls of download_video: <<run, item>>
    up_log,             \* the calls of upload_video: <<run, item, id>>
    extract,            \* a call of extract_pattern_match on its own
    resolved,           \* the pattern loop run on one metadata record
    slots,              \* the schedule computed for the indices 1, 2, ...
    hours_entry,        \* what was last typed into "Hours between releases"
    youtube_service,    \* the service process_videos was handed
    time_text,          \* the progress line: the estimated remaining time
    resize              \* a call of resize_video_opencv on its own

vars == <<videos, config, template_number, disk, start_disk, yt, run, pc, i,
          processed_videos, processed_count, original_video_info,
          current_number, title, description, scheduled_time,
          processed_video, video_path, success, attempt, waits, download,
          upload, pipe_log, dl_log, up_log, extract, resolved, slots,
          hours_entry, youtube_service, time_text, resize>>

\* the locals of one loop iteration
locals == <<original_video_info, current_number, title, description,
            scheduled_time, processed_video, video_path, success>>

download_frame == <<attempt, waits, download>>

logs == <<pipe_log, dl_log, up_log>>

inputs == <<videos, config, run, start_disk, youtube_service>>

\* the state of the operations exercised outside a batch
outside == <<extract, resolved, slots, hours_entry, resize>>

NoRow == [x \in {} |-> Immediate]

\* download_video was not called / upload_video was not called
NoDownload == [called |-> FALSE, attempts |-> 0, path |-> NoFile]

NoUpload ==
    [called |-> FALSE, path |-> NoFile, privacy_status |-> "",
     scheduled_time |-> NoTime, id |-> 0]

\* extract_pattern_match was not called
NoExtract ==
    [called |-> FALSE, text |-> <<>>, pattern |-> <<>>, raised |-> FALSE,
     found_matches |-> <<>>]

\* the pattern loop was not run
NoResolve ==
    [called |-> FALSE, info |-> [title |-> <<>>, description |-> <<>>],
     pattern |-> <<>>, value |-> <<>>]

\* nothing was typed into the widget
NoEntry == [typed |-> FALSE, value |-> 0, rejected |-> FALSE]

\* time_text = st.empty()
NoText == [shown |-> FALSE, estimated |-> FALSE, estimate |-> <<0, 1>>]

\* resize_video_opencv was not called
NoResize ==
    [called |-> FALSE, orig |-> <<1, 1>>, target |-> <<1, 1>>,
     scale |-> <<1, 1>>, new_width |-> 0, new_height |-> 0,
     pad_left |-> 0, pad_top |-> 0, canvas |-> <<0, 0>>, frames |-> 0,
     returned |-> FALSE]

ClearLocals ==
    /\ original_video_info' = EmptyInfo
    /\ current_number' = 0
    /\ title' = <<>>
    /\ description' = <<>>
    /\ scheduled_time' = NoTime
    /\ processed_video' = NoRow
    /\ video_path' = NoFile
    /\ success' = 0
    /\ attempt' = 0
    /\ waits' = <<>>
    /\ download' = NoDownload
    /\ upload' = NoUpload

IdleState ==
    /\ i = 0
    /\ processed_videos = <<>>
    /\ processed_count = 0
    /\ original_video_info = EmptyInfo
    /\ current_number = 0
    /\ title = <<>>
    /\ description = <<>>
    /\ scheduled_time = NoTime
    /\ processed_video = NoRow
    /\ video_path = NoFile
    /\ success = 0
    /\ attempt = 0
    /\ waits = <<>>
    /\ download = NoDownload
    /\ upload = NoUpload
    /\ pipe_log = <<>>
    /\ dl_log = <<>>
    /\ up_log = <<>>
    /\ yt = <<>>
    /\ run = 1
    /\ extract = NoExtract
    /\ resolved = NoResolve
    /\ slots = <<>>
    /\ hours_entry = NoEntry
    /\ time_text = NoText
    /\ resize = NoResize

\* the positions of the batch that have a URL
Attempted(batch) == {k \in DOMAIN batch : batch[k] # 0}

\* process_videos is called on a batch, with a configuration, a service and
\* an output directory that may already hold video_<k>.mp4 for some of its
\* items
StartBatch(service) ==
    /\ videos \in Batches
    /\ config \in {c \in ConfigChoices : ValidConfig(c)}
    /\ template_number = config.template_number
    /\ \E ks \in SUBSET Attempted(videos) :
           disk = GuardFiles(ks, Len(videos))
    /\ start_disk = disk
    /\ youtube_service = service
    /\ pc = "loop"
    /\ IdleState

\* get_youtube_service(dev_mode=False) with valid credentials:
\* build('youtube', 'v3', credentials=creds)
Init == StartBatch("real")

\* ------------------------------------------------------------------------
\* Pure parts of process_videos
\* ------------------------------------------------------------------------

\* format_title / format_description: str.replace of the two placeholders
Render(template, number, original_url) ==
    [k \in DOMAIN template |->
        IF template[k] = "{number}" THEN Num(number)
        ELSE IF template[k] = "{originalUrl}" THEN SourceUrl(original_url)
        ELSE Text(<<template[k]>>)]

format_title(template, number, original_url) ==
    Render(template, number, original_url)

format_description(template, number, original_url) ==
    Render(template, number, original_url)

\* est_tz.localize(naive): the same wall clock, now read in US/Eastern
Localize(dt) == DateTime(dt.wall, "EST")

\* dt + timedelta(hours=h): pytz keeps the zone's offset
PlusHours(dt, h) == DateTime(dt.wall + h, dt.tz)

\* dt.astimezone(pytz.UTC)
AsUtc(dt) ==
    IF dt.tz = "EST" THEN DateTime(dt.wall + est_offset, "UTC") ELSE dt

\* (mutant) the first index gets the second slot
ScheduleIndex_FromZero(pos) == pos + 1

\* which index the schedule is computed from: the position in the batch
ScheduleIndex(pos) == pos

\* base_time + timedelta(hours=(i-1) * hours_between)
ComputeSchedule(cfg, pos) ==
    IF cfg.schedule_enabled
    THEN PlusHours(Localize(DateTime(cfg.schedule_config.start, "naive")),
                   (ScheduleIndex(pos) - 1) * cfg.schedule_config.hours_between)
    ELSE NoTime

\* the dict created before processing
BaseRow(number, sched, url) ==
    [c \in {"Starting Number", "Scheduled Date", "Original Video URL",
            "Uploaded Video URL"} |->
        CASE c = "Starting Number" -> Num(number)
          [] c = "Scheduled Date" ->
                 IF sched = NoTime THEN Immediate
                 ELSE ScheduledDate(sched.wall)
          [] c = "Original Video URL" -> SourceUrl(url)
          [] OTHER -> Processing]

\* (mutant) the description is searched before the title
ResolvePattern_DescriptionFirst(info, pattern) ==
    LET title_matches == extract_pattern_match(info.title, pattern)
        desc_matches == extract_pattern_match(info.description, pattern)
    IN IF desc_matches # <<>> THEN Text(desc_matches[1])
       ELSE IF title_matches # <<>> THEN Text(title_matches[1])
       ELSE Text(<<>>)

\* the value of one pattern: first match in the title, else first match in
\* the description, else ''
ResolvePattern(info, pattern) ==
    LET title_matches == extract_pattern_match(info.title, pattern)
        desc_matches == extract_pattern_match(info.description, pattern)
    IN IF title_matches # <<>> THEN Text(title_matches[1])
       ELSE IF desc_matches # <<>> THEN Text(desc_matches[1])
       ELSE Text(<<>>)

\* for pattern_config in config['search_patterns']: ...
RECURSIVE AddPatternColumns(_, _, _, _)
AddPatternColumns(row, info, patterns, k) ==
    IF k > Len(patterns) THEN row
    ELSE AddPatternColumns(
             DictSet(row, patterns[k].column_name,
                     ResolvePattern(info, patterns[k].pattern)),
             info, patterns, k + 1)

\* the privacy process_videos hands to process_single_video
RequestedPrivacy(cfg) == "private"

\* privacy_status if privacy_status != "scheduled" else "private"
PipelinePrivacy(p) == IF p = "scheduled" THEN "private" ELSE p

\* (mutant) the append source is not looked for
AppendApplies_EnabledOnly(cfg) == cfg.append.enabled

\* if append_enabled and append_video_path and os.path.exists(...)
AppendApplies(cfg) ==
    cfg.append.enabled /\ cfg.append.path /\ cfg.append.exists

\* ------------------------------------------------------------------------
\* upload_video
\* ------------------------------------------------------------------------

\* body['status']['publishAt']: the scheduled time in UTC, a naive one
\* read as US/Eastern first
PublishAt(sched) ==
    IF sched = NoTime THEN NoTime
    ELSE AsUtc(IF sched.tz = "naive" THEN Localize(sched) ELSE sched)

\* the request body's status.privacyStatus
BodyPrivacy(privacy_status, sched) == "private"

\* (mutant) the update to the requested status is not kept to unscheduled
\* uploads
UpdatesPrivacy_AlsoScheduled(privacy_status, sched) ==
    privacy_status # "private"

\* whether videos().update is called after the insert
UpdatesPrivacy(privacy_status, sched) ==
    sched = NoTime /\ privacy_status # "private"

\* The call as a whole.  outcome: what insert/next_chunk does ("ok", or an
\* error, which the handler turns into None).  upd: what videos().update
\* does when it is called; the API knows no privacy "scheduled".
upload_video(channel, path, ttl, descr, privacy_status, sched, outcome, upd) ==
    IF outcome # "ok"
    THEN [yt |-> channel, id |-> 0]
    ELSE LET created ==
                 [path |-> path, title |-> ttl, description |-> descr,
                  created_privacy |-> BodyPrivacy(privacy_status, sched),
                  publish_at |-> PublishAt(sched),
                  privacy |-> BodyPrivacy(privacy_status, sched)]
             updated ==
                 IF /\ UpdatesPrivacy(privacy_status, sched)
                    /\ upd = "ok"
                    /\ privacy_status \in {"public", "unlisted"}
                 THEN [created EXCEPT !.privacy = privacy_status]
                 ELSE created
         IN [yt |-> Append(channel, updated), id |-> Len(channel) + 1]

UploadOutcomes == {"ok", "http_error", "error"}
UpdateOutcomes == {"ok", "fail"}

\* what insert(...).next_chunk() does on the service at hand.  The object
\* DummyYouTubeService.insert returns is a DummyRequest, which has execute()
\* and no next_chunk: the call raises AttributeError, an "error".
RequestOutcomes(service) ==
    IF service = "dummy" THEN {"error"} ELSE UploadOutcomes

\* ------------------------------------------------------------------------
\* process_videos: the orchestrator loop
\* ------------------------------------------------------------------------

\* for i, video in enumerate(videos, 1): an item without a URL is skipped
SkipItem ==
    /\ pc = "loop"
    /\ i < Len(videos)
    /\ videos[i + 1] = 0
    /\ i' = i + 1
    /\ UNCHANGED <<outside, inputs, time_text,
                   template_number, disk, yt, pc, processed_videos,
                   processed_count, locals, download_frame, upload, logs>>

\* the text written into time_text for the item at position pos.  The
\* estimate is remaining_videos * (elapsed_time / processed_count): it is
\* kept as the multiple of elapsed_time it amounts to, the fraction
\* <<remaining_videos, processed_count>>.
ProgressText(count, total_videos, pos) ==
    IF count > 0
    THEN [shown |-> TRUE, estimated |-> TRUE,
          estimate |-> <<total_videos - pos + 1, count>>]
    ELSE [shown |-> TRUE, estimated |-> FALSE, estimate |-> <<0, 1>>]

BeginItem ==
    /\ pc = "loop"
    /\ i < Len(videos)
    /\ videos[i + 1] # 0
    /\ i' = i + 1
    /\ time_text' = ProgressText(processed_count, Len(videos), i + 1)
    /\ pc' = "Fetching"
    /\ UNCHANGED <<outside, inputs,
                   template_number, disk, yt, processed_videos,
                   processed_count, locals, download_frame, upload, logs>>

\* get_video_info: the metadata, or empty title and description on any error
FetchInfo ==
    /\ pc = "Fetching"
    /\ \E info \in MetaChoices \cup {EmptyInfo} :
           original_video_info' = info
    /\ pc' = "Formatting"
    /\ UNCHANGED <<outside, inputs, time_text,
                   template_number, disk, yt, i, processed_videos,
                   processed_count, current_number, title, description,
                   scheduled_time, processed_video, video_path, success,
                   download_frame, upload, logs>>

Format ==
    /\ pc = "Formatting"
    /\ current_number' = template_number
    /\ title' = format_title(title_template, template_number, videos[i])
    /\ description' =
           format_description(description_template, template_number, videos[i])
    /\ pc' = "Scheduling"
    /\ UNCHANGED <<outside, inputs, time_text,
                   template_number, disk, yt, i, processed_videos,
                   processed_count, original_video_info, scheduled_time,
                   processed_video, video_path, success, download_frame, upload, logs>>

Schedule ==
    /\ pc = "Scheduling"
    /\ scheduled_time' = ComputeSchedule(config, i)
    /\ processed_video' =
           BaseRow(current_number, ComputeSchedule(config, i), videos[i])
    /\ pc' = "Columns"
    /\ UNCHANGED <<outside, inputs, time_text,
                   template_number, disk, yt, i, processed_videos,
                   processed_count, original_video_info, current_number,
                   title, description, video_path, success, download_frame,
                   upload, logs>>

Columns ==
    /\ pc = "Columns"
    /\ processed_video' =
           AddPatternColumns(processed_video, original_video_info,
                             config.search_patterns, 1)
    /\ pc' = "Pipeline"
    /\ UNCHANGED <<outside, inputs, time_text,
                   template_number, disk, yt, i, processed_videos,
                   processed_count, original_video_info, current_number,
                   title, description, scheduled_time, video_path, success,
                   download_frame, upload, logs>>

\* if success: the row gets its URL and joins the report; the counter
\* advances either way
RowOf(row, result) == DictSet(row, "Uploaded Video URL", WatchUrl(result))

\* (mutant) every attempted item is reported
Reported_Always(result) == TRUE

\* if success:
Reported(result) == result # 0

\* (mutant) the counter advances only for a reported item
NextNumber_OnSuccess(n) == IF success # 0 THEN n + 1 ELSE n

\* config['template_number'] += 1
NextNumber(n) == n + 1

Record ==
    /\ pc = "Recording"
    /\ IF Reported(success)
       THEN /\ processed_videos' =
                   Append(processed_videos, RowOf(processed_video, success))
            /\ processed_count' = processed_count + 1
       ELSE UNCHANGED <<processed_videos, processed_count>>
    /\ template_number' = NextNumber(template_number)
    /\ pc' = "loop"
    /\ ClearLocals
    /\ UNCHANGED <<outside, inputs, time_text, disk, yt, i, logs>>

\* return processed_videos
Finish ==
    /\ pc = "loop"
    /\ i = Len(videos)
    /\ pc' = "done"
    /\ UNCHANGED <<outside, inputs, time_text,
                   template_number, disk, yt, i, processed_videos,
                   processed_count, locals, download_frame, upload, logs>>

\* ------------------------------------------------------------------------
\* process_single_video: the per-item pipeline
\* ------------------------------------------------------------------------

\* video_path = os.path.join(output_dir, clean_filename(f"video_{n}.mp4"))
GuardFile(video_number) == VideoFile(video_number)

\* (mutant) the guard looks for the file of the previous item
GuardHit_OffByOne(d, video_number) == Exists(d, GuardFile(video_number - 1))

\* if not os.path.exists(video_path): ... ; return False
GuardHit(d, video_number) == Exists(d, GuardFile(video_number))

\* (mutant) a failure of the pipeline ends the batch
ItemFails_Aborts ==
    /\ success' = 0
    /\ pc' = "aborted"

\* (mutant) a failed step of the pipeline falls through to the upload
ItemFails_FallsThrough ==
    /\ success' = 0
    /\ pc' = "Publishing"

\* process_single_video returns False
ItemFails ==
    /\ success' = 0
    /\ pc' = "Recording"

\* entry of process_single_video(video_number=i): the file-exists guard
EnterPipeline ==
    /\ pc = "Pipeline"
    /\ pipe_log' = Append(pipe_log, <<run, i>>)
    /\ IF GuardHit(disk, i)
       THEN /\ ItemFails
            /\ UNCHANGED <<download_frame, dl_log>>
       ELSE /\ pc' = "Downloading"
            /\ attempt' = 0
            /\ waits' = <<>>
            /\ download' = [NoDownload EXCEPT !.called = TRUE]
            /\ dl_log' = Append(dl_log, <<run, i>>)
            /\ UNCHANGED success
    /\ UNCHANGED <<outside, inputs, time_text,
                   template_number, disk, yt, i, processed_videos,
                   processed_count, original_video_info, current_number,
                   title, description, scheduled_time, processed_video,
                   video_path, upload, up_log>>

\* ------------------------------------------------------------------------
\* download_video: the retry loop
\* ------------------------------------------------------------------------

\* What one attempt meets: extract_info or download raises; extract_info
\* returns nothing; the info has no id; ydl.download wrote <id>.mp4 (yt-dlp
\* keeps a file that is already there); ydl.download returned without
\* writing it ('ignoreerrors': True).
AttemptOutcomes ==
    {"raise", "no_info", "no_id", "downloaded", "not_downloaded"}

\* (mutant) the loop makes one attempt too many
LastAttempt_OffByOne(a) == a >= max_retries

\* for attempt in range(max_retries)
LastAttempt(a) == a >= max_retries - 1

\* (attempt + 1) * 2
WaitTime(a) == (a + 1) * base_delay

\* the directory after ydl.download([url])
AfterDownload(d, url, outcome) ==
    IF outcome = "downloaded" /\ ~Exists(d, IdFile(url))
    THEN WriteFile(d, IdFile(url))
    ELSE d

\* the path the attempt returns, NoFile when it returns none: the expected
\* file if it exists, else the most recent .mp4 of the directory
FoundFile(d, url) ==
    IF Exists(d, IdFile(url)) THEN IdFile(url)
    ELSE IF d # <<>> THEN LatestFile(d)
    ELSE NoFile

\* download_video returns (a path, or NoFile for None) to the pipeline
DownloadReturns(path) ==
    /\ download' = [called |-> TRUE, attempts |-> attempt + 1, path |-> path]
    /\ UNCHANGED <<attempt, waits>>
    /\ IF path = NoFile
       THEN /\ ItemFails
            /\ UNCHANGED video_path
       ELSE /\ video_path' = path
            /\ pc' = IF AppendApplies(config) THEN "Transforming"
                     ELSE "Publishing"
            /\ UNCHANGED success

\* continue / the end of the except branch: the next attempt, if any
NextAttempt(slept) ==
    IF LastAttempt(attempt)
    THEN DownloadReturns(NoFile)
    ELSE /\ attempt' = attempt + 1
         /\ waits' = waits \o slept
         /\ download' = [download EXCEPT !.attempts = attempt + 1]
         /\ UNCHANGED <<pc, video_path, success>>

DownloadAttempt ==
    /\ pc = "Downloading"
    /\ \E outcome \in AttemptOutcomes :
        LET d == AfterDownload(disk, videos[i], outcome)
        IN /\ disk' = d
           /\ CASE outcome = "raise" ->
                       NextAttempt(IF LastAttempt(attempt) THEN <<>>
                                   ELSE <<WaitTime(attempt)>>)
                [] outcome \in {"no_info", "no_id"} ->
                       NextAttempt(<<>>)
                [] OTHER ->
                       IF FoundFile(d, videos[i]) # NoFile
                       THEN DownloadReturns(FoundFile(d, videos[i]))
                       ELSE NextAttempt(<<>>)
    /\ UNCHANGED <<outside, inputs, time_text,
                   template_number, yt, i, processed_videos,
                   processed_count, original_video_info, current_number,
                   title, description, scheduled_time, processed_video,
                   upload, logs>>

\* ------------------------------------------------------------------------
\* The append transform
\* ------------------------------------------------------------------------

\* VideoFileClip(...).size of both clips: equal, different, or an error
AppendProbe ==
    /\ pc = "Transforming"
    /\ \E r \in {"same", "differ", "error"} :
        CASE r = "same" -> pc' = "Concatenating" /\ UNCHANGED success
          [] r = "differ" -> pc' = "Resizing" /\ UNCHANGED success
          [] OTHER -> ItemFails
    /\ UNCHANGED <<outside, inputs, time_text,
                   template_number, disk, yt, i, processed_videos,
                   processed_count, original_video_info, current_number,
                   title, description, scheduled_time, processed_video,
                   video_path, download_frame, upload, logs>>

\* resize_video_opencv(append_video_path, resized_append_path, w, h): True,
\* or False after an error raised before or after the output was written
AppendResize ==
    /\ pc = "Resizing"
    /\ \E r \in {"ok", "fail_before_write", "fail_after_write"} :
        /\ disk' = IF r = "fail_before_write" THEN disk
                   ELSE WriteFile(disk, ResizedFile(i))
        /\ IF r = "ok"
           THEN pc' = "Concatenating" /\ UNCHANGED success
           ELSE ItemFails
    /\ UNCHANGED <<outside, inputs, time_text,
                   template_number, yt, i, processed_videos,
                   processed_count, original_video_info, current_number,
                   title, description, scheduled_time, processed_video,
                   video_path, download_frame, upload, logs>>

\* concatenate_videoclips and write_videofile(final_path)
AppendConcat ==
    /\ pc = "Concatenating"
    /\ \E r \in {"ok", "fail_before_write", "fail_after_write"} :
        /\ disk' = IF r = "fail_before_write" THEN disk
                   ELSE WriteFile(disk, FinalFile(i))
        /\ IF r = "ok"
           THEN /\ video_path' = FinalFile(i)
                /\ pc' = "Publishing"
                /\ UNCHANGED success
           ELSE /\ ItemFails
                /\ UNCHANGED video_path
    /\ UNCHANGED <<outside, inputs, time_text,
                   template_number, yt, i, processed_videos,
                   processed_count, original_video_info, current_number,
                   title, description, scheduled_time, processed_video,
                   download_frame, upload, logs>>

\* ------------------------------------------------------------------------
\* Publishing
\* ------------------------------------------------------------------------

UploadCall(path, privacy_status, sched, result) ==
    [called |-> TRUE, path |-> path, privacy_status |-> privacy_status,
     scheduled_time |-> sched, id |-> result]

\* video_id = upload_video(...); return video_id, or False
Publish ==
    /\ pc = "Publishing"
    /\ \E outcome \in RequestOutcomes(youtube_service),
          upd \in UpdateOutcomes :
        LET p == PipelinePrivacy(RequestedPrivacy(config))
            r == upload_video(yt, video_path, title, description, p,
                              scheduled_time, outcome, upd)
        IN /\ yt' = r.yt
           /\ success' = r.id
           /\ upload' = UploadCall(video_path, p, scheduled_time, r.id)
           /\ up_log' = Append(up_log, <<run, i, r.id>>)
    /\ pc' = "Recording"
    /\ UNCHANGED <<outside, inputs, time_text,
                   template_number, disk, i, processed_videos,
                   processed_count, original_video_info, current_number,
                   title, description, scheduled_time, processed_video,
                   video_path, download_frame, pipe_log, dl_log>>

\* ------------------------------------------------------------------------
\* The batch
\* ------------------------------------------------------------------------

Next ==
    \/ SkipItem
    \/ BeginItem
    \/ FetchInfo
    \/ Format
    \/ Schedule
    \/ Columns
    \/ EnterPipeline
    \/ DownloadAttempt
    \/ AppendProbe
    \/ AppendResize
    \/ AppendConcat
    \/ Publish
    \/ Record
    \/ Finish

Spec == Init /\ [][Next]_vars

\* The loop is sequential code: whenever a step is possible it is taken.
FairSpec == Spec /\ WF_vars(Next)

\* ------------------------------------------------------------------------
\* A batch processed again (app.py: "Start Processing" pressed again)
\* ------------------------------------------------------------------------

\* output_dir = ensure_directory("downloads") and the channel are the same;
\* config is built anew by get_processing_config, the report starts empty
Rerun ==
    /\ pc = "done"
    /\ run < MaxRuns
    /\ run' = run + 1
    /\ start_disk' = disk
    /\ template_number' = config.template_number
    /\ i' = 0
    /\ processed_videos' = <<>>
    /\ processed_count' = 0
    /\ time_text' = NoText
    /\ pc' = "loop"
    /\ UNCHANGED <<outside, videos, config, youtube_service, disk, yt, locals,
                   download_frame, upload, logs>>

\* a first call on an empty output directory
InitRerun ==
    /\ Init
    /\ disk = <<>>
    /\ config.search_patterns = <<>>
    /\ config.privacy_status \in {"private", "scheduled"}

NextRerun == Next \/ Rerun

SpecRerun == InitRerun /\ [][NextRerun]_vars

\* ------------------------------------------------------------------------
\* A batch in development mode
\* ------------------------------------------------------------------------

\* get_youtube_service(dev_mode=True): return DummyYouTubeService()
InitDev == StartBatch("dummy")

SpecDev == InitDev /\ [][Next]_vars

\* ------------------------------------------------------------------------
\* upload_video called on its own
\* ------------------------------------------------------------------------

\* the scheduled_time a caller may pass: none, a naive one, an aware one
ScheduledChoices == {NoTime, DateTime(0, "naive"), DateTime(6, "EST")}

DirectUpload ==
    /\ pc = "direct"
    /\ Len(up_log) < MaxUploadCalls
    /\ \E p \in PrivacyChoices, sched \in ScheduledChoices,
          outcome \in RequestOutcomes(youtube_service),
          upd \in UpdateOutcomes :
        LET r == upload_video(yt, disk[1], title, description, p, sched,
                              outcome, upd)
        IN /\ yt' = r.yt
           /\ upload' = UploadCall(disk[1], p, sched, r.id)
           /\ up_log' = Append(up_log, <<run, 0, r.id>>)
    /\ UNCHANGED <<outside, inputs, time_text,
                   template_number, disk, pc, i, processed_videos,
                   processed_count, locals, download_frame, pipe_log, dl_log>>

InitUpload ==
    /\ videos = <<>>
    /\ config \in {c \in ConfigChoices : ValidConfig(c)}
    /\ config.privacy_status = "private"
    /\ config.search_patterns = <<>>
    /\ ~config.append.enabled
    /\ template_number = config.template_number
    /\ disk = <<IdFile(1)>>
    /\ start_disk = disk
    /\ youtube_service = "real"
    /\ pc = "direct"
    /\ IdleState

SpecUpload == InitUpload /\ [][DirectUpload]_vars

\* ------------------------------------------------------------------------
\* The pure operations called on their own
\* ------------------------------------------------------------------------

\* the characters of the texts searched
Alphabet == {"F", "f", "1", "2", "."}

\* the characters of the titles and descriptions
InfoAlphabet == {"F", "1", "."}

\* every text of at most n characters of an alphabet
TextsOver(alphabet, n) == UNION {[1 .. k -> alphabet] : k \in 0 .. n}

\* the patterns a user may type: with and without the wildcard, with
\* characters the regular expression syntax gives a meaning to, and none
ExtractPatterns ==
    { <<>>,
      <<"F", "{", "#", "}">>,
      <<"{", "#", "}">>,
      <<"{", "#", "}", "f">>,
      <<"{", "#", "}", "1">>,
      <<".", "{", "#", "}">>,
      <<"F", "{", "#", "}", "(">>,
      <<"F">>,
      <<"f", "1">>,
      <<"1", "1">>,
      <<".">>,
      <<"F", ".">>,
      <<"(">>,
      <<"1", "[">> }

\* patterns of letters, digits and the wildcard only
ResolvePatterns ==
    { <<"F", "{", "#", "}">>, <<"{", "#", "}">>, <<"f", "1">> }

\* title "Amazing F12 clip", description "see F99"
ExampleInfo ==
    [title |-> <<"A", "m", "a", "z", "i", "n", "g", " ", "F", "1", "2", " ",
                 "c", "l", "i", "p">>,
     description |-> <<"s", "e", "e", " ", "F", "9", "9">>]

\* the metadata records the pattern loop is run on
InfoChoices ==
    { [title |-> t, description |-> d] :
        t \in TextsOver(InfoAlphabet, MaxInfoLen),
        d \in TextsOver(InfoAlphabet, MaxInfoLen) }
    \cup {ExampleInfo}

\* extract_pattern_match(text, pattern)
ExtractCall ==
    /\ pc = "extract"
    /\ ~extract.called
    /\ LET r == ExtractOutcome(extract.text, extract.pattern)
       IN extract' = [extract EXCEPT !.called = TRUE, !.raised = r.raised,
                                     !.found_matches = r.matches]
    /\ UNCHANGED <<inputs, template_number, disk, yt, pc, i, processed_videos,
                   processed_count, locals, download_frame, upload, logs,
                   resolved, slots, hours_entry, time_text, resize>>

\* the body of `for pattern_config in config['search_patterns']` for one
\* pattern: the value stored under its column
ResolveCall ==
    /\ pc = "resolve"
    /\ ~resolved.called
    /\ resolved' =
           [resolved EXCEPT
               !.called = TRUE,
               !.value = ResolvePattern(resolved.info, resolved.pattern).s]
    /\ UNCHANGED <<inputs, template_number, disk, yt, pc, i, processed_videos,
                   processed_count, locals, download_frame, upload, logs,
                   extract, slots, hours_entry, time_text, resize>>

\* the schedules computed on their own: start hours and intervals
PureSchedules ==
    { [start |-> s, hours_between |-> h] : s \in {0, 23}, h \in {1, 6, 24} }

\* scheduled_time of the next index, as process_videos computes it
ScheduleCall ==
    /\ pc = "schedule"
    /\ Len(slots) < MaxIndex
    /\ slots' = Append(slots, ComputeSchedule(config, Len(slots) + 1))
    /\ UNCHANGED <<inputs, template_number, disk, yt, pc, i, processed_videos,
                   processed_count, locals, download_frame, upload, logs,
                   extract, resolved, hours_entry, time_text, resize>>

\* the frame sizes resized on their own: the small ones, and the sizes of
\* a 640x480 clip and a 1080x1920 target
FrameSizes ==
    ((1 .. MaxDim) \X (1 .. MaxDim)) \cup {<<640, 480>>, <<1080, 1920>>}

RECURSIVE Gcd(_, _)
Gcd(a, b) == IF b = 0 THEN a ELSE Gcd(b, a % b)

RECURSIVE PowerOfTwo(_)
PowerOfTwo(n) == n = 1 \/ (n % 2 = 0 /\ PowerOfTwo(n \div 2))

\* the float a / b is the quotient itself: it is a binary fraction
ExactQuotient(a, b) == PowerOfTwo(b \div Gcd(a, b))

\* (mutant) the larger of the two factors is taken
Scale_Max(orig_width, orig_height, target_width, target_height) ==
    IF target_width * orig_height >= target_height * orig_width
    THEN <<target_width, orig_width>>
    ELSE <<target_height, orig_height>>

\* scale = min(target_width / orig_width, target_height / orig_height), kept
\* as the fraction <<numerator, denominator>>
Scale(orig_width, orig_height, target_width, target_height) ==
    IF target_width * orig_height <= target_height * orig_width
    THEN <<target_width, orig_width>>
    ELSE <<target_height, orig_height>>

\* int(n * scale).  The product is computed in floating point: when the
\* quotient is not a binary fraction the float scale is a rounded one, and
\* a product that is a whole number in exact arithmetic may come out just
\* below it, so that int() gives one less.
Scaled(n, scale) ==
    LET exact == (n * scale[1]) \div scale[2]
    IN IF (n * scale[1]) % scale[2] = 0
          /\ ~ExactQuotient(scale[1], scale[2])
       THEN {exact, exact - 1}
       ELSE {exact}

\* resize_video_opencv(input_path, output_path, target_width,
\* target_height) on a clip of one frame or more.  cv2.resize raises on an
\* empty size, and so may the writing of the audio: the handler returns
\* False.
ResizeCall ==
    /\ pc = "resize"
    /\ ~resize.called
    /\ LET orig_width == resize.orig[1]
           orig_height == resize.orig[2]
           target_width == resize.target[1]
           target_height == resize.target[2]
           scale == Scale(orig_width, orig_height, target_width,
                          target_height)
       IN \E new_width \in Scaled(orig_width, scale),
             new_height \in Scaled(orig_height, scale),
             written \in BOOLEAN :
              LET resized == new_width > 0 /\ new_height > 0
              IN resize' =
                     [resize EXCEPT
                         !.called = TRUE,
                         !.scale = scale,
                         !.new_width = new_width,
                         !.new_height = new_height,
                         !.pad_left = (target_width - new_width) \div 2,
                         !.pad_top = (target_height - new_height) \div 2,
                         !.canvas = IF resized
                                    THEN <<target_width, target_height>>
                                    ELSE <<0, 0>>,
                         !.frames = IF resized THEN 1 ELSE 0,
                         !.returned = resized /\ written]
    /\ UNCHANGED <<inputs, template_number, disk, yt, pc, i, processed_videos,
                   processed_count, locals, download_frame, upload, logs,
                   extract, resolved, slots, hours_entry, time_text>>

InitPure ==
    /\ videos = <<>>
    /\ config \in {c \in ConfigChoices \cup
                        { [c0 EXCEPT !.schedule_config = sc] :
                            c0 \in ConfigChoices, sc \in PureSchedules } :
                     ValidConfig(c)}
    /\ config.privacy_status \in {"private", "scheduled"}
    /\ config.search_patterns = <<>>
    /\ ~config.append.enabled
    /\ template_number = config.template_number
    /\ disk = <<>>
    /\ start_disk = disk
    /\ i = 0
    /\ processed_videos = <<>>
    /\ processed_count = 0
    /\ original_video_info = EmptyInfo
    /\ current_number = 0
    /\ title = <<>>
    /\ description = <<>>
    /\ scheduled_time = NoTime
    /\ processed_video = NoRow
    /\ video_path = NoFile
    /\ success = 0
    /\ attempt = 0
    /\ waits = <<>>
    /\ download = NoDownload
    /\ upload = NoUpload
    /\ pipe_log = <<>>
    /\ dl_log = <<>>
    /\ up_log = <<>>
    /\ yt = <<>>
    /\ run = 1
    /\ slots = <<>>
    /\ hours_entry = NoEntry
    /\ youtube_service = "real"
    /\ time_text = NoText
    /\ \/ /\ pc = "schedule"
          /\ extract = NoExtract
          /\ resolved = NoResolve
          /\ resize = NoResize
       \/ /\ pc = "extract"
          /\ \E t \in TextsOver(Alphabet, MaxTextLen), p \in ExtractPatterns :
                 extract = [NoExtract EXCEPT !.text = t, !.pattern = p]
          /\ resolved = NoResolve
          /\ resize = NoResize
       \/ /\ pc = "resolve"
          /\ \E info \in InfoChoices, p \in ResolvePatterns :
                 resolved = [NoResolve EXCEPT !.info = info, !.pattern = p]
          /\ extract = NoExtract
          /\ resize = NoResize
       \/ /\ pc = "resize"
          /\ \E o \in FrameSizes, t \in FrameSizes :
                 resize = [NoResize EXCEPT !.orig = o, !.target = t]
          /\ extract = NoExtract
          /\ resolved = NoResolve
    /\ config.schedule_enabled <=> pc = "schedule"

NextPure ==
    \/ ExtractCall
    \/ ResolveCall
    \/ ScheduleCall
    \/ ResizeCall

SpecPure == InitPure /\ [][NextPure]_vars

\* ------------------------------------------------------------------------
\* The report table (app.py)
\* ------------------------------------------------------------------------

\* base_columns = ["Starting Number", "Scheduled Date", ...]
base_columns ==
    <<"Starting Number", "Scheduled Date", "Uploaded Video URL",
      "Channel Name", "Original Video URL">>

\* df = pd.DataFrame(processed_videos); df.columns: every key of every row
FrameColumns(rows) == UNION {DOMAIN rows[k] : k \in DOMAIN rows}

\* df = df[all_columns] raises KeyError for the listed columns the frame
\* does not have
MissingColumns(rows) ==
    {base_columns[k] : k \in DOMAIN base_columns} \ FrameColumns(rows)

\* ------------------------------------------------------------------------
\* The schedule widget and the start of the batch
\* ------------------------------------------------------------------------

\* what a user may type into "Hours between releases"
HoursEntries == {-1, 0, 1, 6}

\* (mutant) the widget has no lower limit
HoursAccepted_Any(v) == TRUE

\* st.number_input("Hours between releases", min_value=1, value=24): the
\* widget does not take a value below min_value
HoursAccepted(v) == v >= 1

\* A value is typed into the widget while privacy "scheduled" is selected:
\* it becomes schedule_config['hours_between'], or the widget refuses it
\* and keeps the value it had.
EnterHours ==
    /\ pc = "configure"
    /\ config.schedule_enabled
    /\ \E v \in HoursEntries :
        IF HoursAccepted(v)
        THEN /\ config' =
                    [config EXCEPT !.schedule_config.hours_between = v]
             /\ hours_entry' =
                    [typed |-> TRUE, value |-> v, rejected |-> FALSE]
        ELSE /\ hours_entry' =
                    [typed |-> TRUE, value |-> v, rejected |-> TRUE]
             /\ UNCHANGED config
    /\ UNCHANGED <<videos, run, start_disk, template_number, disk, yt, pc, i,
                   processed_videos, processed_count, locals, download_frame,
                   upload, logs, extract, resolved, slots, youtube_service,
                   time_text, resize>>

\* "Start Processing": process_videos(videos, youtube_service, output_dir,
\* config) with the configuration of this script run
StartProcessing ==
    /\ pc = "configure"
    /\ pc' = "loop"
    /\ UNCHANGED <<outside, inputs, time_text, template_number, disk, yt, i,
                   processed_videos, processed_count, locals, download_frame,
                   upload, logs>>

\* the page with privacy "scheduled" selected and the widget at its default
InitConfigure ==
    /\ videos \in Batches
    /\ config \in
           { [template_number |-> n, privacy_status |-> "scheduled",
              schedule_enabled |-> TRUE,
              schedule_config |-> [start |-> 0, hours_between |-> 24],
              append |-> a, search_patterns |-> <<>>] :
               n \in StartNumbers, a \in AppendChoices }
    /\ template_number = config.template_number
    /\ disk = <<>>
    /\ start_disk = disk
    /\ youtube_service = "real"
    /\ pc = "configure"
    /\ IdleState

NextConfigure ==
    \/ EnterHours
    \/ StartProcessing
    \/ Next

SpecConfigure == InitConfigure /\ [][NextConfigure]_vars

\* ------------------------------------------------------------------------
\* Properties
\* ------------------------------------------------------------------------

\* the orchestrator is inside the iteration of item i
InItem ==
    pc \in {"Fetching", "Formatting", "Scheduling", "Columns", "Pipeline",
            "Downloading", "Transforming", "Resizing", "Concatenating",
            "Publishing", "Recording"}

\* the items whose iteration is over
Completed == {k \in Attempted(videos) : k < i \/ (k = i /\ ~InItem)}

\* how many entries of a log are about item k in the current call
CallsOf(log, k) ==
    Cardinality({n \in DOMAIN log : log[n][1] = run /\ log[n][2] = k})

\* C1: after process_videos, and at every point of the loop, template_number
\* is its starting value plus the number of items with a URL whose iteration
\* is over, whatever their outcomes; items without a URL do not count.
C1_CounterInvariant ==
    /\ template_number = config.template_number + Cardinality(Completed)
    /\ pc = "done" =>
           template_number =
               config.template_number + Cardinality(Attempted(videos))

\* a finished batch of two attempted items, one reported and one not
C1_Witness ==
    /\ pc = "done"
    /\ Cardinality(Attempted(videos)) = 2
    /\ Len(processed_videos) = 1
    /\ template_number = config.template_number + 2

\* the 1-based rank of position k among the items that have a URL
AttemptRank(k) == Cardinality({j \in Attempted(videos) : j <= k})

\* the time the schedule gives to index k
SlotOf(k) ==
    PlusHours(Localize(DateTime(config.schedule_config.start, "naive")),
              (k - 1) * config.schedule_config.hours_between)

\* the iteration of item i has computed its schedule
Scheduled ==
    pc \in {"Columns", "Pipeline", "Downloading", "Transforming", "Resizing",
            "Concatenating", "Publishing", "Recording"}

\* C2: with scheduling enabled, the k-th item that has a URL is scheduled at
\* base + (k-1) * hours_between; items without a URL before it do not
\* advance the index.
C2_ScheduleCountsAttempted ==
    (config.schedule_enabled /\ Scheduled) =>
        scheduled_time = SlotOf(AttemptRank(i))

\* what the code does: the slot of the position in the unfiltered batch
C2_ScheduleByPosition ==
    (config.schedule_enabled /\ Scheduled) => scheduled_time = SlotOf(i)

\* the calls of upload_video of the current call of process_videos that
\* returned an identifier, in call order
Published == SelectSeq(up_log, LAMBDA e : e[1] = run /\ e[3] # 0)

\* those of them whose item's iteration is over
PublishedAndRecorded == SelectSeq(Published, LAMBDA e : e[2] \in Completed)

\* C3: the report holds one row per item whose pipeline returned a published
\* identifier and none for a failed or guard-skipped item; the rows are in
\* input order; a row's 'Uploaded Video URL' is made of the identifier the
\* Publisher returned for that item.
C3_ReportContents ==
    /\ Len(processed_videos) = Len(PublishedAndRecorded)
    /\ \A k \in DOMAIN processed_videos :
           processed_videos[k]["Uploaded Video URL"] =
               WatchUrl(PublishedAndRecorded[k][3])
    /\ \A k, l \in DOMAIN PublishedAndRecorded :
           k < l => PublishedAndRecorded[k][2] < PublishedAndRecorded[l][2]
    /\ pc = "Recording" => (success # 0 <=> (upload.called /\ upload.id # 0))

\* a finished batch whose first item failed at the Publisher and whose second
\* item is the only row
C3_Witness ==
    /\ pc = "done"
    /\ Len(up_log) = 2
    /\ up_log[1][3] = 0
    /\ up_log[2][3] # 0
    /\ Len(processed_videos) = 1
    /\ processed_videos[1]["Uploaded Video URL"] = WatchUrl(up_log[2][3])

\* the pipeline has been entered for the item of the current iteration
PipelineEntered ==
    pc \in {"Downloading", "Transforming", "Resizing", "Concatenating",
            "Publishing", "Recording"}

\* every item with a URL gets one run of the pipeline, no item gets two, and
\* the Publisher is called at most once for an item
C4_OncePerItem ==
    /\ \A k \in DOMAIN videos :
           /\ CallsOf(pipe_log, k) <= 1
           /\ CallsOf(up_log, k) <= 1
           /\ CallsOf(dl_log, k) <= 1
           /\ k \notin Attempted(videos) => CallsOf(pipe_log, k) = 0
           /\ k \in Completed => CallsOf(pipe_log, k) = 1
    /\ PipelineEntered => CallsOf(pipe_log, i) = 1
    /\ pc = "done" => i = Len(videos)

\* C4: the batch continues after any item's failure and retries nothing: each
\* item with a URL has its pipeline run exactly once whatever happened
\* before, the Publisher is called at most once per item, and process_videos
\* reaches its end and returns the report.
C4_BatchContinues == [](C4_OncePerItem) /\ <>(pc = "done")

\* the first item failed at the Publisher, the second was processed after it
\* and the batch is over
C4_Witness ==
    /\ pc = "done"
    /\ Len(pipe_log) = 2
    /\ Len(up_log) = 2
    /\ up_log[1][3] = 0
    /\ CallsOf(pipe_log, 2) = 1

\* the items of the batch, up to the current one, whose video_<n>.mp4 was in
\* the output directory when the call began (no step creates or removes one)
Guarded == {k \in Attempted(videos) : k <= i /\ Exists(start_disk, VideoFile(k))}

\* C5: when video_<n>.mp4 exists as the pipeline of item n starts, neither
\* the Downloader nor the Publisher is called for the item, the pipeline
\* returns failure, and the item gets no row.
C5_IdempotencyGuard ==
    /\ \A k \in Guarded :
           /\ Exists(disk, VideoFile(k))
           /\ CallsOf(dl_log, k) = 0
           /\ CallsOf(up_log, k) = 0
    /\ (PipelineEntered /\ i \in Guarded) =>
           /\ pc = "Recording"
           /\ success = 0
           /\ ~download.called
           /\ ~upload.called
    /\ Len(processed_videos) <= Cardinality(Completed \ Guarded)

\* the pipeline of the second item returned at the guard, after a first item
\* that was reported
C5_Witness ==
    /\ pc = "Recording"
    /\ i = 2
    /\ i \in Guarded
    /\ Len(pipe_log) = 2
    /\ Len(processed_videos) = 1
    /\ success = 0

\* the items whose download of an earlier call of process_videos is still
\* in the output directory as the current call begins
DownloadedBefore ==
    {k \in Attempted(videos) :
        /\ Exists(start_disk, IdFile(videos[k]))
        /\ \E n \in DOMAIN dl_log : dl_log[n][1] < run /\ dl_log[n][2] = k}

\* C6: when the batch is processed again on the same output directory, an
\* item whose earlier download is still on disk is caught by the guard: it
\* is neither downloaded nor published a second time.
C6_GuardAcrossReruns ==
    \A k \in DownloadedBefore :
        /\ CallsOf(dl_log, k) = 0
        /\ CallsOf(up_log, k) = 0

\* no item is published twice over the calls of process_videos
C6_NoDuplicateUpload ==
    \A m, n \in DOMAIN up_log :
        (m # n /\ up_log[m][2] = up_log[n][2]) =>
            (up_log[m][3] = 0 \/ up_log[n][3] = 0)

\* C7: for a batch configured with privacy p in {private, public, unlisted}
\* and no schedule, the Publisher is called with privacy status p, and the
\* object it creates ends at that visibility unless the update was refused.
C7_PublisherGetsRequestedPrivacy ==
    (/\ upload.called
     /\ ~config.schedule_enabled
     /\ config.privacy_status \in {"private", "public", "unlisted"}) =>
        upload.privacy_status = config.privacy_status

\* what the code does: the Publisher is always asked for "private", and
\* every object of a batch stays private
C7_AlwaysPrivate ==
    /\ upload.called => upload.privacy_status = "private"
    /\ \A id \in DOMAIN yt : yt[id].privacy = "private"

\* C8: whenever upload_video is called with a scheduled time, the object is
\* created private with a publish-at timestamp, and no later step of the call
\* makes it public or unlisted, whatever privacy status was requested.
C8_ScheduledIsPrivate ==
    /\ \A id \in DOMAIN yt :
           yt[id].publish_at # NoTime =>
               /\ yt[id].created_privacy = "private"
               /\ yt[id].privacy = "private"
    /\ (upload.called /\ upload.scheduled_time # NoTime /\ upload.id # 0) =>
           /\ yt[upload.id].publish_at # NoTime
           /\ yt[upload.id].publish_at.tz = "UTC"
           /\ yt[upload.id].created_privacy = "private"
           /\ yt[upload.id].privacy = "private"

\* a call that asked for "public" together with a scheduled time
C8_Witness ==
    /\ upload.called
    /\ upload.privacy_status = "public"
    /\ upload.scheduled_time # NoTime
    /\ upload.id # 0
    /\ yt[upload.id].privacy = "private"

\* download_video has returned for the item of the current iteration
DownloadReturned == download.called /\ pc # "Downloading"

\* C9: download_video makes at most max_retries attempts, returns the path at
\* the attempt that succeeds without a further attempt, and returns None only
\* after max_retries failed attempts; with a path the pipeline goes on to the
\* transform or the Publisher.
C9_BoundedRetry ==
    /\ download.attempts <= max_retries
    /\ pc = "Downloading" =>
           /\ attempt < max_retries
           /\ download.attempts = attempt
           /\ download.path = NoFile
    /\ (DownloadReturned /\ download.path # NoFile) =>
           /\ download.attempts = attempt + 1
           /\ pc \in {"Transforming", "Resizing", "Concatenating",
                      "Publishing", "Recording"}
           /\ ~AppendApplies(config) => (pc = "Publishing" \/ upload.called)
    /\ (DownloadReturned /\ download.path = NoFile) =>
           /\ download.attempts = max_retries
           /\ pc = "Recording"
           /\ success = 0
           /\ ~upload.called

\* two failed attempts, the file on the third, and the item published
C9_Witness ==
    /\ pc = "Recording"
    /\ download.attempts = 3
    /\ Len(waits) = 2
    /\ download.path = IdFile(videos[i])
    /\ upload.called
    /\ success # 0

\* get_video_info failed for the item of the current iteration, whose
\* pipeline is over
FetchFailedItem == pc = "Recording" /\ original_video_info = EmptyInfo

\* the row process_videos appends for the item of the current iteration
ReportRow == RowOf(processed_video, success)

\* C10: an item whose metadata fetch failed still gets its run of the
\* pipeline, and the row reported for it holds the empty string under every
\* configured pattern column.
C10_SoftFetchFailure ==
    FetchFailedItem =>
        /\ CallsOf(pipe_log, i) = 1
        /\ Reported(success) =>
               \A k \in DOMAIN config.search_patterns :
                   ReportRow[config.search_patterns[k].column_name] = Text(<<>>)

\* what the code does: the item gets its run of the pipeline, and the pattern
\* columns are empty except one named as the column process_videos fills
\* after the upload
C10_SoftFetchOtherColumns ==
    FetchFailedItem =>
        /\ CallsOf(pipe_log, i) = 1
        /\ Reported(success) =>
               \A k \in DOMAIN config.search_patterns :
                   LET name == config.search_patterns[k].column_name
                   IN ReportRow[name] =
                          IF name = "Uploaded Video URL"
                          THEN WatchUrl(success) ELSE Text(<<>>)

\* ------------------------------------------------------------------------
\* Pattern search
\* ------------------------------------------------------------------------

\* s, from its position p on, is the pattern from its position k on, with
\* every wildcard token standing for one or more decimal digits and every
\* other character for itself, letter case apart
RECURSIVE FitsFrom(_, _, _, _)
FitsFrom(s, p, pattern, k) ==
    IF k > Len(pattern) THEN p = Len(s) + 1
    ELSE IF IsWildcardAt(pattern, k)
         THEN \E n \in 1 .. (Len(s) - p + 1) :
                  /\ \A q \in p .. (p + n - 1) : s[q] \in Digits
                  /\ FitsFrom(s, p + n, pattern, k + 3)
         ELSE /\ p <= Len(s)
              /\ Lower(s[p]) = Lower(pattern[k])
              /\ FitsFrom(s, p + 1, pattern, k + 1)

Fits(s, pattern) == FitsFrom(s, 1, pattern, 1)

\* the positions of the text where a piece fitting the pattern starts
FitStarts(text, pattern) ==
    {p \in 1 .. Len(text) :
        \E e \in p .. Len(text) : Fits(SubSeq(text, p, e), pattern)}

\* v is a piece of the text that fits the pattern and starts where the
\* leftmost such piece starts
IsFirstMatch(v, text, pattern) ==
    LET starts == FitStarts(text, pattern)
        p == CHOOSE x \in starts : \A y \in starts : x <= y
    IN /\ v # <<>>
       /\ p + Len(v) - 1 <= Len(text)
       /\ SubSeq(text, p, p + Len(v) - 1) = v
       /\ Fits(v, pattern)

ReportedItem == pc = "Recording" /\ Reported(success)

\* C12: every report row holds, for each configured {pattern, column_name}
\* pair, the value resolved for the pattern under column_name; none is
\* missing or replaced.
C12_OneValuePerPattern ==
    ReportedItem =>
        \A k \in DOMAIN config.search_patterns :
            LET pair == config.search_patterns[k]
            IN /\ pair.column_name \in DOMAIN ReportRow
               /\ ReportRow[pair.column_name] =
                      ResolvePattern(original_video_info, pair.pattern)

\* what the code does: the value is in the row unless the column has the
\* name of the column filled after the upload
C12_ValueUnlessClobbered ==
    ReportedItem =>
        \A k \in DOMAIN config.search_patterns :
            LET pair == config.search_patterns[k]
            IN /\ pair.column_name \in DOMAIN ReportRow
               /\ pair.column_name # "Uploaded Video URL" =>
                      ReportRow[pair.column_name] =
                          ResolvePattern(original_video_info, pair.pattern)

\* the pattern holds no wildcard token
RECURSIVE Wildcardless(_, _)
Wildcardless(pattern, k) ==
    IF k > Len(pattern) THEN TRUE
    ELSE ~IsWildcardAt(pattern, k) /\ Wildcardless(pattern, k + 1)

\* the pattern occurs in the text at position p as a plain substring,
\* letter case apart
OccursAt(text, pattern, p) ==
    /\ p + Len(pattern) - 1 <= Len(text)
    /\ \A k \in 1 .. Len(pattern) : Lower(text[p + k - 1]) = Lower(pattern[k])

\* the non-overlapping occurrences of a non-empty pattern as a plain
\* substring, scanning from position p to the right
RECURSIVE PlainOccurrences(_, _, _)
PlainOccurrences(text, pattern, p) ==
    IF p > Len(text) THEN <<>>
    ELSE IF OccursAt(text, pattern, p)
         THEN <<SubSeq(text, p, p + Len(pattern) - 1)>>
                  \o PlainOccurrences(text, pattern, p + Len(pattern))
         ELSE PlainOccurrences(text, pattern, p + 1)

\* C13: for a pattern without the wildcard token, extract_pattern_match
\* returns exactly the non-overlapping case-insensitive occurrences of the
\* pattern as a plain substring: every character is matched literally.
C13_LiteralMatching ==
    (/\ extract.called
     /\ extract.pattern # <<>>
     /\ Wildcardless(extract.pattern, 1)) =>
        extract.found_matches =
            PlainOccurrences(extract.text, extract.pattern, 1)

\* what the code does for the patterns of letters and digits alone
C13_LiteralLettersAndDigits ==
    (/\ extract.called
     /\ extract.pattern # <<>>
     /\ Wildcardless(extract.pattern, 1)
     /\ \A k \in DOMAIN extract.pattern :
            extract.pattern[k] \notin {".", "(", "["}) =>
        extract.found_matches =
            PlainOccurrences(extract.text, extract.pattern, 1)

\* the compiled expression matches nowhere in the text
MatchesNowhere(text, pattern) ==
    \A p \in 1 .. Len(text) : MatchEnd(Compile(pattern, 1), 1, text, p) = 0

\* C14: extract_pattern_match never raises, and returns the empty list when
\* the text is empty, when the pattern is empty, when the pattern is
\* malformed after the substitution, and when nothing matches.
C14_NeverRaises ==
    extract.called =>
        /\ ~extract.raised
        /\ (\/ extract.text = <<>>
            \/ extract.pattern = <<>>
            \/ Malformed(extract.pattern, 1)
            \/ MatchesNowhere(extract.text, extract.pattern)) =>
               extract.found_matches = <<>>
        /\ extract.found_matches # <<>> =>
               \A k \in DOMAIN extract.found_matches :
                   extract.found_matches[k] # <<>>

\* a malformed pattern on a text it would otherwise be searched in
C14_Witness ==
    /\ extract.called
    /\ extract.text = <<"F", "1", ".">>
    /\ extract.pattern = <<"F", "{", "#", "}", "(">>
    /\ ~extract.raised
    /\ extract.found_matches = <<>>

\* the matches m[j], m[j+1], ... are pieces of the text that lie one after
\* the other, none before position from and no two overlapping
RECURSIVE InOrder(_, _, _, _)
InOrder(text, m, j, from) ==
    IF j > Len(m) THEN TRUE
    ELSE \E p \in from .. Len(text) :
             /\ p + Len(m[j]) - 1 <= Len(text)
             /\ SubSeq(text, p, p + Len(m[j]) - 1) = m[j]
             /\ InOrder(text, m, j + 1, p + Len(m[j]))

\* the pattern with every wildcard token replaced by the literal
RECURSIVE Substitute(_, _, _)
Substitute(pattern, literal, k) ==
    IF k > Len(pattern) THEN <<>>
    ELSE IF IsWildcardAt(pattern, k)
         THEN literal \o Substitute(pattern, literal, k + 3)
         ELSE <<pattern[k]>> \o Substitute(pattern, literal, k + 1)

\* a fixed literal of three digits
ThreeDigits == <<"1", "2", "1">>

\* the matches are listed left to right and no two overlap
OrderedDisjoint ==
    InOrder(extract.text, extract.found_matches, 1, 1)

\* every match is the pattern with its wildcard standing for digits
MatchesFit ==
    \A j \in DOMAIN extract.found_matches :
        Fits(extract.found_matches[j], extract.pattern)

\* the pattern with the three-digit literal for its wildcard is among the
\* matches when it occurs in the text
LiteralFound ==
    LET lit == Substitute(extract.pattern, ThreeDigits, 1)
    IN (\E p \in 1 .. Len(extract.text) : OccursAt(extract.text, lit, p)) =>
           \E j \in DOMAIN extract.found_matches :
               /\ Len(extract.found_matches[j]) = Len(lit)
               /\ OccursAt(extract.found_matches[j], lit, 1)

\* C15: the matches extract_pattern_match returns are pieces of the text in
\* which the wildcard token stands for one or more decimal digits, listed
\* left to right, no two overlapping, and the pattern with its wildcard
\* replaced by a fixed 3-digit literal is among them whenever that string
\* occurs in the text.
C15_WildcardMatches ==
    (extract.called /\ ~Wildcardless(extract.pattern, 1)) =>
        /\ MatchesFit
        /\ OrderedDisjoint
        /\ LiteralFound

\* what the code does: the order and the disjointness hold for every
\* pattern
C15_OrderAndOverlap == extract.called => OrderedDisjoint

\* ------------------------------------------------------------------------
\* The transform
\* ------------------------------------------------------------------------

\* append is enabled and an append source is configured and exists
TransformDue ==
    /\ config.append.enabled
    /\ config.append.path
    /\ config.append.exists

InTransform == pc \in {"Transforming", "Resizing", "Concatenating"}

\* the pipeline of the item is over and its transform did not get to the
\* concatenated file
TransformFailed ==
    /\ pc = "Recording"
    /\ TransformDue
    /\ download.path # NoFile
    /\ video_path # FinalFile(i)

\* C16: the transform runs only when append is enabled and its source is
\* configured and exists; the Publisher then gets the concatenated file, and
\* only once it was written; a failed resize or concatenation leaves the item
\* failed and the Publisher uncalled; without the transform the Publisher
\* gets the downloaded file.
C16_TransformGating ==
    /\ InTransform => (TransformDue /\ download.path # NoFile)
    /\ (pc = "Publishing" \/ upload.called) =>
           /\ download.path # NoFile
           /\ video_path =
                  IF TransformDue THEN FinalFile(i) ELSE download.path
           /\ TransformDue => Exists(disk, FinalFile(i))
    /\ upload.called => upload.path = video_path
    /\ TransformFailed => (~upload.called /\ success = 0)

\* an item published with the concatenated file
C16_Witness ==
    /\ pc = "Recording"
    /\ TransformDue
    /\ upload.called
    /\ upload.path = FinalFile(i)
    /\ success # 0

\* a resize that failed after the download of the item
C16_FailureWitness ==
    /\ TransformFailed
    /\ Exists(disk, ResizedFile(i))
    /\ ~Exists(disk, FinalFile(i))

\* ------------------------------------------------------------------------
\* The schedule interval
\* ------------------------------------------------------------------------

\* no item was fetched, downloaded or published yet
BatchNotStarted ==
    /\ i = 0
    /\ pipe_log = <<>>
    /\ dl_log = <<>>
    /\ up_log = <<>>
    /\ yt = <<>>

\* C17: with scheduling enabled, an interval of zero or less is refused
\* before the batch starts: the refusal is there before any item is fetched,
\* downloaded or published, and no item is scheduled with such an interval.
C17_IntervalRejected ==
    /\ (hours_entry.typed /\ hours_entry.value <= 0) =>
           /\ hours_entry.rejected
           /\ config.schedule_config.hours_between # hours_entry.value
    /\ pc = "configure" => BatchNotStarted
    /\ config.schedule_enabled => config.schedule_config.hours_between >= 1
    /\ scheduled_time # NoTime =>
           scheduled_time.wall - config.schedule_config.start
               = (i - 1) * config.schedule_config.hours_between

\* zero was typed and refused, and the batch then ran on the interval the
\* widget kept
C17_Witness ==
    /\ hours_entry.typed
    /\ hours_entry.value = 0
    /\ hours_entry.rejected
    /\ pc = "Recording"
    /\ i = 2
    /\ scheduled_time = DateTime(24, "EST")

\* ------------------------------------------------------------------------
\* The report
\* ------------------------------------------------------------------------

\* the columns of the dict process_videos creates for an item
RowColumns ==
    {"Starting Number", "Scheduled Date", "Original Video URL",
     "Uploaded Video URL"}

PatternColumns ==
    {config.search_patterns[k].column_name : k \in DOMAIN config.search_patterns}

\* C18: every row of the report holds each base column the report consumer
\* selects and one column per configured pattern, so that the consumer
\* builds the table of any non-empty report without a missing column.
C18_ReportColumns ==
    /\ \A k \in DOMAIN processed_videos :
           /\ \A c \in DOMAIN base_columns :
                  base_columns[c] \in DOMAIN processed_videos[k]
           /\ PatternColumns \subseteq DOMAIN processed_videos[k]
    /\ processed_videos # <<>> => MissingColumns(processed_videos) = {}

\* what the code does: a row holds the four columns of the dict created for
\* the item and the pattern columns, and the consumer always misses one
C18_RowsLackChannelName ==
    /\ \A k \in DOMAIN processed_videos :
           DOMAIN processed_videos[k] = RowColumns \cup PatternColumns
    /\ processed_videos # <<>> =>
           MissingColumns(processed_videos) = {"Channel Name"}

\* ------------------------------------------------------------------------
\* Schedule arithmetic
\* ------------------------------------------------------------------------

\* the instant of a datetime, in hours UTC
Instant(dt) == AsUtc(dt).wall

\* C19: the publish time of index k is localize(base) + (k-1) * hours_between
\* hours; it does not decrease with k and consecutive indices are exactly
\* hours_between hours apart.  Base 2024-01-01 00:00 and hours_between 6
\* give 00:00, 06:00 and 12:00 of that day for the indices 1, 2, 3.
C19_ScheduleArithmetic ==
    pc = "schedule" =>
        LET base == config.schedule_config.start
            hours_between == config.schedule_config.hours_between
        IN /\ \A k \in DOMAIN slots :
                  /\ slots[k] = DateTime(base + (k - 1) * hours_between, "EST")
                  /\ Instant(slots[k]) =
                         base + est_offset + (k - 1) * hours_between
                  /\ k > 1 =>
                         /\ Instant(slots[k]) >= Instant(slots[k - 1])
                         /\ Instant(slots[k]) - Instant(slots[k - 1])
                                = hours_between
           /\ (base = 0 /\ hours_between = 6 /\ Len(slots) >= 3) =>
                  /\ slots[1].wall = 0
                  /\ slots[2].wall = 6
                  /\ slots[3].wall = 12

\* the example of the spec: three indices from hour 0, six hours apart
C19_Witness ==
    /\ pc = "schedule"
    /\ config.schedule_config = [start |-> 0, hours_between |-> 6]
    /\ Len(slots) = 3
    /\ slots[3] = DateTime(12, "EST")

\* ------------------------------------------------------------------------
\* Backoff
\* ------------------------------------------------------------------------

\* the waits made so far are those after the failed attempts 1, 2, ...:
\* attempt k is followed by k * base_delay seconds
ProgressiveWaits(n) ==
    /\ Len(waits) = n
    /\ \A k \in DOMAIN waits : waits[k] = k * base_delay

\* C20: in download_video every failed attempt k but the last is followed by
\* a wait of k * base_delay seconds before attempt k + 1, whatever made it
\* fail; no failed attempt is retried without the wait.
C20_BackoffEveryFailure ==
    /\ pc = "Downloading" => ProgressiveWaits(attempt)
    /\ DownloadReturned => ProgressiveWaits(download.attempts - 1)

\* what the code does: it waits after an attempt that raised, and the waits
\* it makes grow with the attempt
C20_BackoffWhenRaised ==
    download.called \/ pc = "Downloading" =>
        /\ Len(waits) <= attempt
        /\ \A k \in DOMAIN waits :
               /\ waits[k] \in {a * base_delay : a \in k .. max_retries - 1}
               /\ k > 1 => waits[k] > waits[k - 1]

\* ------------------------------------------------------------------------
\* Stage ordering
\* ------------------------------------------------------------------------

\* the stages that may follow a stage of the item's processing
NextStages(stage) ==
    CASE stage = "loop" -> {"loop", "Fetching", "done"}
      [] stage = "Fetching" -> {"Formatting"}
      [] stage = "Formatting" -> {"Scheduling"}
      [] stage = "Scheduling" -> {"Columns"}
      [] stage = "Columns" -> {"Pipeline"}
      [] stage = "Pipeline" -> {"Downloading", "Recording"}
      [] stage = "Downloading" ->
             {"Downloading", "Transforming", "Publishing", "Recording"}
      [] stage = "Transforming" -> {"Resizing", "Concatenating", "Recording"}
      [] stage = "Resizing" -> {"Concatenating", "Recording"}
      [] stage = "Concatenating" -> {"Publishing", "Recording"}
      [] stage = "Publishing" -> {"Recording"}
      [] stage = "Recording" -> {"loop"}
      [] OTHER -> {}

\* one step of the batch keeps the order of the stages, moves to the next
\* item only between two items, and starts an item only when every earlier
\* item with a URL has had its pipeline and was recorded
StageStep ==
    /\ pc' \in NextStages(pc)
    /\ i' # i => (pc = "loop" /\ i' = i + 1)
    /\ pc' = "Fetching" =>
           /\ ~InItem
           /\ \A k \in Attempted(videos) :
                  k <= i => (k \in Completed /\ CallsOf(pipe_log, k) = 1)
    /\ pc' = "Publishing" => download'.path # NoFile

\* C21: within an item the stages come in the order fetch, format, schedule,
\* download, (transform), publish; the Publisher is never called for an item
\* whose download returned no path; no stage of the next item starts before
\* the item has reached Done or Failed.
C21_StageOrdering ==
    /\ [][StageStep]_vars
    /\ [](upload.called => (download.called /\ download.path # NoFile))

\* the second item is being published after the first one was recorded
C21_Witness ==
    /\ pc = "Publishing"
    /\ i = 2
    /\ 1 \in Completed
    /\ CallsOf(up_log, 1) = 1

\* ------------------------------------------------------------------------
\* Files left in the output directory
\* ------------------------------------------------------------------------

\* the item's pipeline has returned, with or without an upload
PipelineEnded == pc = "Recording"

\* the file download_video returned for the item is still on the disk
DownloadKept == download.path # NoFile => Exists(disk, download.path)

\* C22: after an item's pipeline ends the output directory holds no
\* intermediate file the transform created for the item (the resized append
\* clip), while the file the download produced is still present.
C22_ArtifactsCleaned ==
    PipelineEnded => (~Exists(disk, ResizedFile(i)) /\ DownloadKept)

\* what the code does: no step of the batch removes a file from the output
\* directory, so the download is kept and so is the resized append clip
C22_NothingDeleted ==
    /\ [](PipelineEnded => DownloadKept)
    /\ [][\A k \in DOMAIN disk : Exists(disk', disk[k])]_vars

\* ------------------------------------------------------------------------
\* Whose file is published
\* ------------------------------------------------------------------------

\* the files an item may be published from: its own download, or the
\* concatenation made from it
OwnFiles(k) == {IdFile(videos[k]), FinalFile(k)}

\* C25: the path download_video returns for an item's URL is the file of that
\* URL, and the file handed to upload_video is the item's own media, never a
\* file an earlier item left in the output directory.
C25_OwnMedia ==
    /\ (InItem /\ download.path # NoFile) => download.path = IdFile(videos[i])
    /\ (InItem /\ upload.called) => upload.path \in OwnFiles(i)

\* what the code does: the returned path is the expected file when it exists
\* and otherwise the most recent file of the directory, whatever item made it
C25_ExpectedOrLatest ==
    (InItem /\ download.path # NoFile) =>
        \/ download.path = IdFile(videos[i])
        \/ Exists(disk, download.path) /\ ~Exists(disk, IdFile(videos[i]))

\* ------------------------------------------------------------------------
\* Base columns and pattern columns
\* ------------------------------------------------------------------------

\* the 'Scheduled Date' cell of the item being processed
ScheduleCell ==
    IF scheduled_time = NoTime THEN Immediate
    ELSE ScheduledDate(scheduled_time.wall)

\* C27: for every search-pattern configuration, one whose column_name is the
\* name of a base column included, each report row's base columns hold the
\* item's template number, its schedule string and its source URL.
C27_BaseColumnsKept ==
    ReportedItem =>
        /\ ReportRow["Starting Number"] = Num(current_number)
        /\ ReportRow["Scheduled Date"] = ScheduleCell
        /\ ReportRow["Original Video URL"] = SourceUrl(videos[i])

\* what the code does: a base column holds its value unless a pattern column
\* has its name
C27_KeptUnlessNamed ==
    ReportedItem =>
        /\ "Starting Number" \notin PatternColumns =>
               ReportRow["Starting Number"] = Num(current_number)
        /\ "Scheduled Date" \notin PatternColumns =>
               ReportRow["Scheduled Date"] = ScheduleCell
        /\ "Original Video URL" \notin PatternColumns =>
               ReportRow["Original Video URL"] = SourceUrl(videos[i])

\* ------------------------------------------------------------------------
\* Numbering of the report
\* ------------------------------------------------------------------------

\* the attempted items before position k
AttemptedBefore(k) == {j \in Attempted(videos) : j < k}

\* the cell is the number n
IsNumber(cell, n) == cell = Num(n)

\* the 'Starting Number' cells grow along the report
NumbersIncrease(report) ==
    \A k, l \in DOMAIN report :
        k < l =>
            /\ report[k]["Starting Number"].t = "num"
            /\ report[l]["Starting Number"].t = "num"
            /\ report[k]["Starting Number"].n < report[l]["Starting Number"].n

\* the number n was rendered into the title and description of the item
RenderedWith(n) ==
    /\ title = format_title(title_template, n, videos[i])
    /\ description = format_description(description_template, n, videos[i])

\* C26: each report row's 'Starting Number' is the template number rendered
\* into the item's title and description, it is the batch's starting number
\* plus the count of attempted items before the item, and the values grow
\* strictly along the report.
C26_NumberingConsistent ==
    /\ ReportedItem =>
           /\ ReportRow["Starting Number"].t = "num"
           /\ RenderedWith(ReportRow["Starting Number"].n)
           /\ IsNumber(ReportRow["Starting Number"],
                       config.template_number
                           + Cardinality(AttemptedBefore(i)))
    /\ NumbersIncrease(processed_videos)

\* what the code does: the numbering is consistent in every batch whose
\* pattern columns leave the name 'Starting Number' alone
C26_ConsistentUnlessNamed ==
    "Starting Number" \notin PatternColumns => C26_NumberingConsistent

\* ------------------------------------------------------------------------
\* Letterbox geometry
\* ------------------------------------------------------------------------

\* the fraction p is at most the quotient a / b
AtMostQuotient(p, a, b) == p[1] * b <= a * p[2]

\* the fraction p is the quotient a / b
IsQuotient(p, a, b) == p[1] * b = a * p[2]

\* the padding on the far side of a dimension
PadRight == resize.target[1] - resize.new_width - resize.pad_left
PadBottom == resize.target[2] - resize.new_height - resize.pad_top

\* the two numbers differ by one at most
Close(a, b) == a - b \in {-1, 0, 1}

\* C23: for all positive source and target dimensions the scale is
\* min(target_w/src_w, target_h/src_h), the resized content fits inside the
\* target with non-negative padding, the paddings of opposite sides differ
\* by one pixel at most, and every output frame is exactly target_w x
\* target_h; 640x480 in 1080x1920 gives 1080x810 at vertical offset 555.
C23_LetterboxGeometry ==
    resize.called =>
        /\ AtMostQuotient(resize.scale, resize.target[1], resize.orig[1])
        /\ AtMostQuotient(resize.scale, resize.target[2], resize.orig[2])
        /\ \/ IsQuotient(resize.scale, resize.target[1], resize.orig[1])
           \/ IsQuotient(resize.scale, resize.target[2], resize.orig[2])
        /\ resize.new_width <= resize.target[1]
        /\ resize.new_height <= resize.target[2]
        /\ resize.new_width * resize.scale[2]
               <= resize.orig[1] * resize.scale[1]
        /\ resize.new_height * resize.scale[2]
               <= resize.orig[2] * resize.scale[1]
        /\ resize.pad_left >= 0 /\ PadRight >= 0
        /\ resize.pad_top >= 0 /\ PadBottom >= 0
        /\ Close(resize.pad_left, PadRight)
        /\ Close(resize.pad_top, PadBottom)
        /\ resize.frames > 0 => resize.canvas = resize.target
        /\ resize.returned => resize.frames > 0
        /\ (resize.orig = <<640, 480>> /\ resize.target = <<1080, 1920>>) =>
               /\ resize.new_width = 1080 /\ resize.new_height = 810
               /\ resize.pad_left = 0 /\ resize.pad_top = 555
               /\ resize.canvas = <<1080, 1920>>

\* the 640x480 clip was resized into the 1080x1920 target
C23_Witness ==
    /\ resize.called
    /\ resize.returned
    /\ resize.orig = <<640, 480>>
    /\ resize.target = <<1080, 1920>>

\* a small frame resized with padding on both sides of one dimension
C23_PaddedWitness ==
    /\ resize.called
    /\ resize.returned
    /\ resize.pad_top > 0
    /\ PadBottom = resize.pad_top + 1

\* ------------------------------------------------------------------------
\* Progress estimation
\* ------------------------------------------------------------------------

\* the attempted items not yet completed when item k starts
NotCompleted(k) == Attempted(videos) \ AttemptedBefore(k)

\* the estimate shown is (elapsed / completed) * not completed: as a
\* multiple of the elapsed time it is not completed / completed
EstimateByCompleted ==
    /\ time_text.estimated
    /\ time_text.estimate[1] * Cardinality(AttemptedBefore(i)) =
           Cardinality(NotCompleted(i)) * time_text.estimate[2]

\* the iteration of an item that follows a completed one has just begun
AfterCompletedItem == pc = "Fetching" /\ AttemptedBefore(i) # {}

\* C24: before each attempted item after the first completed one, the
\* remaining-time estimate is (elapsed time / items completed so far) *
\* (items not yet completed), whatever mix of successes and failures came
\* before; it is recomputed after every item, failed ones included.
C24_ProgressEstimate == AfterCompletedItem => EstimateByCompleted

\* what the code does: the average is taken over the reported items only,
\* and the estimate is right when every earlier item was reported and every
\* later position has a URL
C24_EstimateOverReported ==
    /\ pc = "Fetching" => (time_text.estimated <=> processed_count > 0)
    /\ (/\ AfterCompletedItem
        /\ processed_count = Cardinality(AttemptedBefore(i))
        /\ \A k \in i .. Len(videos) : videos[k] # 0)
           => EstimateByCompleted

\* ------------------------------------------------------------------------
\* Development mode
\* ------------------------------------------------------------------------

\* C28: with the mocked service of development mode, upload_video on a
\* downloaded file returns the mock identifier, so an item whose download
\* succeeded reaches Done and appears in the report.
C28_DevModePublishes ==
    (youtube_service = "dummy" /\ upload.called) =>
        /\ upload.id # 0
        /\ pc = "Recording" => Reported(success)

\* what the code does: in development mode every call of upload_video
\* returns None, nothing is published and the report stays empty
C28_DevModeNeverPublishes ==
    youtube_service = "dummy" =>
        /\ upload.called => upload.id = 0
        /\ processed_videos = <<>>
        /\ yt = <<>>

====
